---- MODULE Spec2Model ----
(***************************************************************************)
(* The research workflow of src/graph/workflow.py: the five stage nodes,   *)
(* the graph that orders them, the loop of run_research_workflow that      *)
(* consumes the events of graph.stream, and the selection of the returned  *)
(* result (the module-level _latest_research_result first, then the states *)
(* captured while streaming).                                              *)
(*                                                                         *)
(* Python dicts are records; a key that is missing from a dict has the     *)
(* value Absent, and None is the record NoneValue.  Generated texts are    *)
(* tokens: Gen(kind, input) stands for the text a chain produced from      *)
(* input.                                                                  *)
(***************************************************************************)
EXTENDS Integers, Sequences, FiniteSets, TLC

VARIABLES
    pc,                 \* where run_research_workflow is: idle, engine, loop, after, done
    runs,               \* how many times run_research_workflow has been called
    topic_arg,          \* the research_topic argument of the current call
    graph_state,        \* the state the graph threads from node to node
    node,               \* the node the graph runs next (END: the stream is exhausted)
    announced,          \* an "enter" event was yielded for node
    stream_shape,       \* the shape of the events this call's stream yields
    ev,                 \* the event graph.stream has just yielded
    latest,             \* _latest_research_result
    final_state_raw,
    complete_state,
    last_node_state,
    last_node_name,
    final_answer_text,
    outcome,            \* none, returned, raised
    result,             \* the dict the call returned
    path,               \* the return statement the call left by
    trace,              \* the nodes run in this call, each with the status it returned
    failed,             \* some external call of this run failed
    yielded,            \* how many events the stream has yielded in this call
    seen,               \* what the observed events carried (see Observed)
    calls,              \* what the agent's external calls did (SpecResearch, SpecFactCheck)
    arg,                \* the argument of the agent method being called (SpecSplit, SpecInit)
    ret,                \* what that method returned
    thread              \* run_research_workflow in each of two threads (SpecThreads)

vars == <<pc, runs, topic_arg, graph_state, node, announced, stream_shape, ev, latest,
          final_state_raw, complete_state, last_node_state, last_node_name,
          final_answer_text, outcome, result, path, trace, failed, yielded, seen,
          calls, arg, ret, thread>>

run_vars == <<final_state_raw, complete_state, last_node_state, last_node_name,
              final_answer_text>>

\* what the workflow's own actions leave alone
other_vars == <<arg, ret, thread>>

-----------------------------------------------------------------------------
(* Bounds of the model. *)

\* calls of run_research_workflow in one process
MaxRuns == 2
\* events an arbitrary stream yields in one call (SpecRec)
MaxEvents == 2
\* lines in the text the query-generation chain returns (SpecResearch)
MaxLines == 3

Topics == {"t1", "t2"}
Depths == {"basic", "advanced"}
QueryCounts == {2, 3}

-----------------------------------------------------------------------------
(* Values. *)

Absent == "<absent>"
NoneValue == [isNone |-> TRUE]

RESEARCH == "research_node"
DRAFT == "draft_node"
FACT_CHECK == "fact_check_node"
CITATION == "citation_node"
IMPROVE == "improve_node"
END == "__end__"
NodeNames == {RESEARCH, DRAFT, FACT_CHECK, CITATION, IMPROVE}

\* research_results: {} in the initial state, the agent's dict afterwards.
\* present = FALSE is a dict that has no "research_results" key at all.
EmptyResults == [present |-> TRUE, synthesis |-> Absent]
MissingResults == [present |-> FALSE, synthesis |-> Absent]

ResearchState(topic, depth, n) ==
    [research_topic |-> topic,
     research_depth |-> depth,
     num_queries |-> n,
     research_results |-> EmptyResults,
     draft_result |-> [initial_draft |-> Absent],
     fact_check_result |-> [corrected_draft |-> Absent],
     citation_result |-> [final_draft |-> Absent],
     final_answer |-> "",
     status |-> "research",
     error |-> ""]

-----------------------------------------------------------------------------
(* The text-generation chain and the agents the nodes call. *)

\* A chain call: it returns a text, returns an empty text, or its exception is
\* turned into an error text by the wrapper.
LLMOutcomes == {"ok", "empty", "failed"}
\* A call of an agent from a node: as a chain call, or an exception that leaves
\* the agent (its console writes are outside its own try block).
CallOutcomes == LLMOutcomes \cup {"raise"}

Gen(kind, input) == kind \o "(" \o input \o ")"

invoke_wrapper(kind, input, o) ==
    CASE o = "ok" -> Gen(kind, input)
      [] o = "empty" -> ""
      [] OTHER -> "Error occurred: llm"

ResearchAgentRun(topic, o) ==
    [present |-> TRUE, synthesis |-> invoke_wrapper("synthesis", topic, o)]

DraftingAgentRun(synthesis, o) ==
    [initial_draft |-> invoke_wrapper("draft", synthesis, o)]

FactCheckingAgentRun(input, o) ==
    [corrected_draft |-> invoke_wrapper("corrected", input, o)]

CitationAgentRun(input, o) ==
    [final_draft |-> invoke_wrapper("cited", input, o)]

improve_answer(input, o) == invoke_wrapper("improved", input, o)

-----------------------------------------------------------------------------
(* The five nodes.  Each returns the state it was given with its own field  *)
(* and the status changed, or with status "error" and the error text.      *)

StageError(state, prefix, cause) ==
    [state EXCEPT !.status = "error", !.error = prefix \o ": " \o cause]

research(state, o) ==
    IF o = "raise"
    THEN StageError(state, "Research error", "boom")
    ELSE [state EXCEPT !.research_results = ResearchAgentRun(state.research_topic, o),
                       !.status = "draft"]

\* (mutant) the draft node hands whatever it finds to its agent
draft_unguarded(state, o) ==
    IF o = "raise"
    THEN StageError(state, "Drafting error", "boom")
    ELSE [state EXCEPT !.draft_result = DraftingAgentRun(state.research_results.synthesis, o),
                       !.status = "fact_check"]

draft(state, o) ==
    IF state.research_results.synthesis = Absent
    THEN StageError(state, "Drafting error", "'synthesis'")
    ELSE IF o = "raise"
    THEN StageError(state, "Drafting error", "boom")
    ELSE [state EXCEPT !.draft_result = DraftingAgentRun(state.research_results.synthesis, o),
                       !.status = "fact_check"]

\* (mutant) the fact-check node also replaces the initial draft with its own
fact_check_redrafts(state, o) ==
    IF state.research_results.synthesis = Absent
    THEN StageError(state, "Fact-checking error", "'synthesis'")
    ELSE IF state.draft_result.initial_draft = Absent
    THEN StageError(state, "Fact-checking error", "'initial_draft'")
    ELSE IF o = "raise"
    THEN StageError(state, "Fact-checking error", "boom")
    ELSE [state EXCEPT !.fact_check_result = FactCheckingAgentRun(state.draft_result.initial_draft, o),
                       !.draft_result = [initial_draft |->
                            FactCheckingAgentRun(state.draft_result.initial_draft, o).corrected_draft],
                       !.status = "citation"]

fact_check(state, o) ==
    IF state.research_results.synthesis = Absent
    THEN StageError(state, "Fact-checking error", "'synthesis'")
    ELSE IF state.draft_result.initial_draft = Absent
    THEN StageError(state, "Fact-checking error", "'initial_draft'")
    ELSE IF o = "raise"
    THEN StageError(state, "Fact-checking error", "boom")
    ELSE [state EXCEPT !.fact_check_result = FactCheckingAgentRun(state.draft_result.initial_draft, o),
                       !.status = "citation"]

\* (mutant) the citation node prefers the initial draft
citation_input_initial_first(state) ==
    IF state.draft_result.initial_draft # Absent
    THEN state.draft_result.initial_draft
    ELSE state.fact_check_result.corrected_draft

\* the draft the citation node hands to its agent (Absent: the lookup raises KeyError)
citation_input(state) ==
    IF state.fact_check_result.corrected_draft # Absent
    THEN state.fact_check_result.corrected_draft
    ELSE state.draft_result.initial_draft

\* (mutant) the citation node also publishes its draft as the final answer
citation_sets_answer(state, o) ==
    IF state.research_results.synthesis = Absent
    THEN StageError(state, "Citation error", "'synthesis'")
    ELSE IF citation_input(state) = Absent
    THEN StageError(state, "Citation error", "'initial_draft'")
    ELSE IF o = "raise"
    THEN StageError(state, "Citation error", "boom")
    ELSE [state EXCEPT !.citation_result = CitationAgentRun(citation_input(state), o),
                       !.final_answer = citation_input(state),
                       !.status = "improve"]

citation(state, o) ==
    IF state.research_results.synthesis = Absent
    THEN StageError(state, "Citation error", "'synthesis'")
    ELSE IF citation_input(state) = Absent
    THEN StageError(state, "Citation error", "'initial_draft'")
    ELSE IF o = "raise"
    THEN StageError(state, "Citation error", "boom")
    ELSE [state EXCEPT !.citation_result = CitationAgentRun(citation_input(state), o),
                       !.status = "improve"]

\* (mutant) the improve node prefers the earliest draft
improve_input_earliest(state) ==
    IF state.draft_result.initial_draft # Absent
    THEN state.draft_result.initial_draft
    ELSE IF state.fact_check_result.corrected_draft # Absent
    THEN state.fact_check_result.corrected_draft
    ELSE state.citation_result.final_draft

\* the draft the improve node hands to improve_answer (Absent: KeyError)
improve_input(state) ==
    IF state.citation_result.final_draft # Absent
    THEN state.citation_result.final_draft
    ELSE IF state.fact_check_result.corrected_draft # Absent
    THEN state.fact_check_result.corrected_draft
    ELSE state.draft_result.initial_draft

\* (mutant) the improve node sets the answer and leaves the status as it was
improve_keeps_status(state, o) ==
    IF improve_input(state) = Absent
    THEN StageError(state, "Improvement error", "'initial_draft'")
    ELSE IF o = "raise"
    THEN StageError(state, "Improvement error", "boom")
    ELSE [state EXCEPT !.final_answer = improve_answer(improve_input(state), o)]

improve(state, o) ==
    IF improve_input(state) = Absent
    THEN StageError(state, "Improvement error", "'initial_draft'")
    ELSE IF o = "raise"
    THEN StageError(state, "Improvement error", "boom")
    ELSE [state EXCEPT !.final_answer = improve_answer(improve_input(state), o),
                       !.status = "complete"]

\* what the improve node stores in _latest_research_result before it returns
improve_store(state, improved_draft) ==
    [isNone |-> FALSE,
     research_topic |-> state.research_topic,
     status |-> "complete",
     research_results |-> state.research_results,
     final_answer |-> improved_draft,
     error |-> Absent]

-----------------------------------------------------------------------------
(* The graph.  A node has a plain edge to the next node (add_edge) and a    *)
(* conditional edge (add_conditional_edges); the graph follows every        *)
(* outgoing edge of a node, so the node after n runs when either names it.  *)

StaticEdge(n) ==
    CASE n = RESEARCH -> DRAFT
      [] n = DRAFT -> FACT_CHECK
      [] n = FACT_CHECK -> CITATION
      [] n = CITATION -> IMPROVE
      [] OTHER -> END

route_after(n, state) ==
    CASE n = IMPROVE -> END
      [] state.status = "error" -> END
      [] n = RESEARCH -> DRAFT
      [] n = DRAFT -> FACT_CHECK
      [] n = FACT_CHECK -> CITATION
      [] OTHER -> IMPROVE

Successors(n, state) == {StaticEdge(n), route_after(n, state)} \ {END}

NextNode(n, state) ==
    IF Successors(n, state) = {} THEN END
    ELSE CHOOSE m \in Successors(n, state) : TRUE

-----------------------------------------------------------------------------
(* Events of graph.stream and what the loop reads from them.                *)

\* wrap: where the state's keys are in the event: at the top of the dict
\* ("plain"), under "values", or under the node's name ("updates").
Wraps == {"plain", "values", "updates"}
\* A stream yields events of one shape: a wrap, and with or without a
\* __metadata__ key (event_type "enter" and "exit"; "none": no such key).
Shapes == [wrap : Wraps, metadata : BOOLEAN]
Event(wrap, event_type, node_name, state) ==
    [isNone |-> FALSE, wrap |-> wrap, event_type |-> event_type,
     node_name |-> node_name, state |-> state]

\* current_state: top says whether the state's keys are its own keys.
extract_values_from_state(e) ==
    [isNone |-> FALSE, top |-> e.wrap # "updates", state |-> e.state]

HasFinalAnswer(cur) == cur.top /\ cur.state.final_answer # Absent
HasStatus(cur) == cur.top /\ cur.state.status # Absent
HasError(cur) == cur.top /\ cur.state.error # Absent
HasResults(cur) == cur.top /\ cur.state.research_results.present

\* d.get("research_results", {})
GetResults(cur) ==
    IF HasResults(cur) THEN cur.state.research_results ELSE EmptyResults

NodeKey(n) ==
    CASE n = RESEARCH -> "research"
      [] n = DRAFT -> "draft"
      [] OTHER -> "improve"

NoNodeStates ==
    [k \in {"research", "draft", "fact_check", "citation", "improve"} |-> NoneValue]

-----------------------------------------------------------------------------
(* The result run_research_workflow returns.                                *)

Result(topic, status, results, answer, error) ==
    [isNone |-> FALSE,
     research_topic |-> topic,
     status |-> status,
     research_results |-> results,
     final_answer |-> answer,
     error |-> error]

\* how the call ends: by a return statement (named by where it is) or by an
\* exception that leaves run_research_workflow
Returned(r, where) == [outcome |-> "returned", value |-> r, path |-> where]
Raised(where) == [outcome |-> "raised", value |-> NoneValue, path |-> where]

NoFinalState == "No final state was produced by the workflow."
NoFinalAnswer == "Research completed but no final answer was produced."
WorkflowError == "Workflow execution error: engine"

\* the last lines of run_research_workflow: the standard output structure
final_fallback(final, topic) ==
    LET status == IF HasStatus(final) THEN final.state.status ELSE "error"
        results == IF HasResults(final) THEN final.state.research_results
                   ELSE MissingResults
    IN  IF status = "error" /\ HasError(final)
        THEN Result(topic, "error", results, Absent, final.state.error)
        ELSE Result(topic, "error", results, Absent, NoFinalAnswer)

\* The checks after the loop, one operator each; NoMatch: the check fails
\* and the code goes on to the next one.
NoMatch == [outcome |-> "nomatch", value |-> NoneValue, path |-> "none"]

\* "if _latest_research_result is not None"
by_side_channel(latest_) ==
    IF ~latest_.isNone THEN Returned(latest_, "side_channel") ELSE NoMatch

\* "First check: If we have a complete state, use that"
by_complete_state(complete_, topic) ==
    IF ~complete_.isNone /\ HasFinalAnswer(complete_)
       /\ complete_.state.final_answer # ""
    THEN Returned(Result(topic, "complete", GetResults(complete_),
                         complete_.state.final_answer, Absent), "complete_state")
    ELSE NoMatch

\* "Second check: If we have a final answer text from somewhere, use that";
\* last_node_state.get("research", {}) is None when no research_node exit
\* event was stored, and None.get raises AttributeError
by_answer_text(text_, nodes_, topic) ==
    IF text_ = "" THEN NoMatch
    ELSE IF nodes_["research"].isNone THEN Raised("answer_text")
    ELSE Returned(Result(topic, "complete", GetResults(nodes_["research"]),
                         text_, Absent), "answer_text")

\* "Third check: If we have the improve node's state with a final answer"
by_improve_state(nodes_, topic) ==
    IF ~nodes_["improve"].isNone /\ HasFinalAnswer(nodes_["improve"])
    THEN Returned(Result(topic, "complete", GetResults(nodes_["improve"]),
                         nodes_["improve"].state.final_answer, Absent), "improve_state")
    ELSE NoMatch

\* the rest: no final state, the final state's answer, the standard structure
by_final_state(raw_, topic) ==
    IF raw_.isNone
    THEN Returned(Result(topic, "error", MissingResults, Absent, NoFinalState),
                  "no_state")
    ELSE LET final == extract_values_from_state(raw_)
         IN  IF HasFinalAnswer(final) /\ final.state.final_answer # ""
             THEN Returned(Result(topic, "complete", GetResults(final),
                                  final.state.final_answer, Absent), "final_state")
             ELSE Returned(final_fallback(final, topic), "fallback")

FirstMatch(checks) ==
    checks[CHOOSE i \in 1..Len(checks) :
              /\ checks[i].outcome # "nomatch"
              /\ \A j \in 1..(i - 1) : checks[j].outcome = "nomatch"]

\* (mutant) the captured states are consulted before _latest_research_result
select_result_states_first(latest_, complete_, text_, nodes_, raw_, topic) ==
    FirstMatch(<<by_complete_state(complete_, topic),
                 by_answer_text(text_, nodes_, topic),
                 by_side_channel(latest_),
                 by_improve_state(nodes_, topic),
                 by_final_state(raw_, topic)>>)

\* (mutant) the answer text is consulted before the captured complete state
select_result_text_first(latest_, complete_, text_, nodes_, raw_, topic) ==
    FirstMatch(<<by_side_channel(latest_),
                 by_answer_text(text_, nodes_, topic),
                 by_complete_state(complete_, topic),
                 by_improve_state(nodes_, topic),
                 by_final_state(raw_, topic)>>)

\* the code after the loop, in the order of its checks
select_result(latest_, complete_, text_, nodes_, raw_, topic) ==
    FirstMatch(<<by_side_channel(latest_),
                 by_complete_state(complete_, topic),
                 by_answer_text(text_, nodes_, topic),
                 by_improve_state(nodes_, topic),
                 by_final_state(raw_, topic)>>)

\* the loop body's captures
next_answer_text(cur, text_) ==
    IF HasFinalAnswer(cur) /\ cur.state.final_answer # ""
    THEN cur.state.final_answer ELSE text_

next_node_states(e, cur, nodes_) ==
    IF e.event_type = "exit" /\ e.node_name \in {RESEARCH, DRAFT, IMPROVE}
    THEN [nodes_ EXCEPT ![NodeKey(e.node_name)] = cur]
    ELSE nodes_

\* (mutant) only the first improve_node exit state is kept
next_complete_state_first_only(e, cur, complete_) ==
    IF e.event_type = "exit" /\ e.node_name = IMPROVE /\ HasFinalAnswer(cur)
       /\ complete_.isNone
    THEN [cur EXCEPT !.state.status = "complete"]
    ELSE complete_

next_complete_state(e, cur, complete_) ==
    IF e.event_type = "exit" /\ e.node_name = IMPROVE /\ HasFinalAnswer(cur)
    THEN [cur EXCEPT !.state.status = "complete"]
    ELSE complete_

\* "if status == error: break"
loop_breaks(cur) == HasStatus(cur) /\ cur.state.status = "error"

-----------------------------------------------------------------------------
(* What the events observed so far carried, told from the events alone.     *)
(* "carried" looks at the state inside the event, whatever the event's      *)
(* shape; "visible" only at the keys current_state has itself.              *)

NothingSeen ==
    [completeAnswer |-> "",        \* answer of the last carried state that is complete and has one
     visibleCompleteAnswer |-> "", \* the same, of the visible states only
     anyAnswer |-> "",             \* last non-empty answer carried
     visibleAnswer |-> "",         \* last non-empty answer visible
     improveExitAnswer |-> Absent, \* answer visible in the last improve_node exit event that has one
     researchExit |-> FALSE,       \* a research_node exit event was observed
     researchExitResults |-> EmptyResults,
     results |-> MissingResults,   \* research results of the last carried state that has them
     errorSeen |-> FALSE]          \* a carried state had status "error"

NonEmpty(text) == text # Absent /\ text # ""

Observed(s, e) ==
    LET cur == extract_values_from_state(e)
    IN  [completeAnswer |->
            IF e.state.status = "complete" /\ NonEmpty(e.state.final_answer)
            THEN e.state.final_answer ELSE s.completeAnswer,
         visibleCompleteAnswer |->
            IF cur.top /\ e.state.status = "complete" /\ NonEmpty(e.state.final_answer)
            THEN e.state.final_answer ELSE s.visibleCompleteAnswer,
         anyAnswer |->
            IF NonEmpty(e.state.final_answer)
            THEN e.state.final_answer ELSE s.anyAnswer,
         visibleAnswer |->
            IF cur.top /\ NonEmpty(e.state.final_answer)
            THEN e.state.final_answer ELSE s.visibleAnswer,
         improveExitAnswer |->
            IF e.event_type = "exit" /\ e.node_name = IMPROVE /\ HasFinalAnswer(cur)
            THEN e.state.final_answer ELSE s.improveExitAnswer,
         researchExit |->
            s.researchExit \/ (e.event_type = "exit" /\ e.node_name = RESEARCH),
         researchExitResults |->
            IF e.event_type = "exit" /\ e.node_name = RESEARCH
            THEN GetResults(cur) ELSE s.researchExitResults,
         results |->
            IF e.state.research_results.present
               /\ e.state.research_results.synthesis # Absent
            THEN e.state.research_results ELSE s.results,
         errorSeen |-> (s.errorSeen \/ e.state.status = "error")]

-----------------------------------------------------------------------------
(* run_research_workflow.                                                   *)

Init ==
    /\ pc = "idle"
    /\ runs = 0
    /\ topic_arg = Absent
    /\ graph_state = NoneValue
    /\ node = END
    /\ announced = FALSE
    /\ stream_shape = NoneValue
    /\ ev = NoneValue
    /\ latest = NoneValue
    /\ final_state_raw = NoneValue
    /\ complete_state = NoneValue
    /\ last_node_state = NoNodeStates
    /\ last_node_name = Absent
    /\ final_answer_text = ""
    /\ outcome = "none"
    /\ result = NoneValue
    /\ path = "none"
    /\ trace = <<>>
    /\ failed = FALSE
    /\ yielded = 0
    /\ seen = NothingSeen
    /\ calls = NoneValue
    /\ arg = NoneValue
    /\ ret = NoneValue
    /\ thread = NoneValue

\* (mutant) the call leaves _latest_research_result as the last call left it
StartWith_keeps_latest(topics, depths, counts, shapes) ==
    /\ pc \in {"idle", "done"}
    /\ runs < MaxRuns
    /\ \E topic \in topics, depth \in depths, n \in counts :
          /\ topic_arg' = topic
          /\ graph_state' = ResearchState(topic, depth, n)
    /\ stream_shape' \in shapes
    /\ runs' = runs + 1
    /\ UNCHANGED latest
    /\ node' = RESEARCH
    /\ announced' = FALSE
    /\ ev' = NoneValue
    /\ final_state_raw' = NoneValue
    /\ complete_state' = NoneValue
    /\ last_node_state' = NoNodeStates
    /\ last_node_name' = Absent
    /\ final_answer_text' = ""
    /\ outcome' = "none"
    /\ result' = NoneValue
    /\ path' = "none"
    /\ trace' = <<>>
    /\ failed' = FALSE
    /\ yielded' = 0
    /\ seen' = NothingSeen
    /\ calls' = NoneValue
    /\ UNCHANGED other_vars
    /\ pc' = "engine"

\* the call, up to the first next() on graph.stream(initial_state)
StartWith(topics, depths, counts, shapes) ==
    /\ pc \in {"idle", "done"}
    /\ runs < MaxRuns
    /\ \E topic \in topics, depth \in depths, n \in counts :
          /\ topic_arg' = topic
          /\ graph_state' = ResearchState(topic, depth, n)
    /\ stream_shape' \in shapes
    /\ runs' = runs + 1
    /\ latest' = NoneValue
    /\ node' = RESEARCH
    /\ announced' = FALSE
    /\ ev' = NoneValue
    /\ final_state_raw' = NoneValue
    /\ complete_state' = NoneValue
    /\ last_node_state' = NoNodeStates
    /\ last_node_name' = Absent
    /\ final_answer_text' = ""
    /\ outcome' = "none"
    /\ result' = NoneValue
    /\ path' = "none"
    /\ trace' = <<>>
    /\ failed' = FALSE
    /\ yielded' = 0
    /\ seen' = NothingSeen
    /\ calls' = NoneValue
    /\ UNCHANGED other_vars
    /\ pc' = "engine"

\* the stream yields an "enter" event for the node it is about to run
EnterEvent ==
    /\ pc = "engine"
    /\ node # END
    /\ stream_shape.metadata
    /\ ~announced
    /\ ev' = Event(stream_shape.wrap, "enter", node, graph_state)
    /\ announced' = TRUE
    /\ yielded' = yielded + 1
    /\ pc' = "loop"
    /\ UNCHANGED <<calls, other_vars, runs, topic_arg, graph_state, node, stream_shape, latest,
                   run_vars, outcome, result, path, trace, failed, seen>>

\* the stream runs node n, which returns state2, and yields an event for it
NodeStep(n, state2, o, latest2) ==
    /\ stream_shape.metadata => announced
    /\ graph_state' = state2
    /\ node' = NextNode(n, state2)
    /\ ev' = Event(stream_shape.wrap,
                   IF stream_shape.metadata THEN "exit" ELSE "none", n, state2)
    /\ latest' = latest2
    /\ announced' = FALSE
    /\ trace' = Append(trace, [node |-> n, status |-> state2.status])
    /\ failed' = (failed \/ o # "ok")
    /\ yielded' = yielded + 1
    /\ pc' = "loop"
    /\ UNCHANGED <<runs, topic_arg, stream_shape, run_vars, outcome, result, path, seen,
                   other_vars>>

Research ==
    /\ pc = "engine" /\ node = RESEARCH
    /\ \E o \in CallOutcomes : NodeStep(RESEARCH, research(graph_state, o), o, latest)
    /\ UNCHANGED calls

Draft ==
    /\ pc = "engine" /\ node = DRAFT
    /\ \E o \in CallOutcomes : NodeStep(DRAFT, draft(graph_state, o), o, latest)
    /\ UNCHANGED calls

FactCheck ==
    /\ pc = "engine" /\ node = FACT_CHECK
    /\ \E o \in CallOutcomes :
          NodeStep(FACT_CHECK, fact_check(graph_state, o), o, latest)
    /\ UNCHANGED calls

Citation ==
    /\ pc = "engine" /\ node = CITATION
    /\ \E o \in CallOutcomes : NodeStep(CITATION, citation(graph_state, o), o, latest)
    /\ UNCHANGED calls

Improve ==
    /\ pc = "engine" /\ node = IMPROVE
    /\ \E o \in CallOutcomes :
          LET state2 == improve(graph_state, o)
          IN  NodeStep(IMPROVE, state2, o,
                       IF state2.status = "complete"
                       THEN improve_store(graph_state, state2.final_answer)
                       ELSE latest)
    /\ UNCHANGED calls

\* one pass of the body of "for state in graph.stream(initial_state)"
Observe ==
    /\ pc = "loop"
    /\ LET cur == extract_values_from_state(ev)
       IN  /\ final_state_raw' = ev
           /\ final_answer_text' = next_answer_text(cur, final_answer_text)
           /\ last_node_name' =
                 IF ev.event_type = "enter" THEN ev.node_name ELSE last_node_name
           /\ last_node_state' = next_node_states(ev, cur, last_node_state)
           /\ complete_state' = next_complete_state(ev, cur, complete_state)
           /\ pc' = IF loop_breaks(cur) THEN "after" ELSE "engine"
    /\ seen' = Observed(seen, ev)
    /\ UNCHANGED <<calls, other_vars, runs, topic_arg, graph_state, node, announced, stream_shape, ev,
                   latest, outcome, result, path, trace, failed, yielded>>

\* the stream is exhausted: the for loop ends
StreamEnd ==
    /\ pc = "engine"
    /\ node = END
    /\ pc' = "after"
    /\ UNCHANGED <<calls, other_vars, runs, topic_arg, graph_state, node, announced, stream_shape, ev,
                   latest, run_vars, outcome, result, path, trace, failed, yielded, seen>>

\* (mutant) the except block hands back _latest_research_result when it is set
StreamRaises_keeps_latest ==
    /\ pc \in {"engine", "loop"}
    /\ outcome' = "returned"
    /\ result' = IF latest.isNone
                 THEN Result(topic_arg, "error", MissingResults, Absent, WorkflowError)
                 ELSE latest
    /\ path' = "except"
    /\ failed' = TRUE
    /\ pc' = "done"
    /\ UNCHANGED <<calls, other_vars, runs, topic_arg, graph_state, node, announced, stream_shape, ev,
                   latest, run_vars, trace, yielded, seen>>

\* an exception inside the try block (next() on the stream, or the loop body)
StreamRaises ==
    /\ pc \in {"engine", "loop"}
    /\ outcome' = "returned"
    /\ result' = Result(topic_arg, "error", MissingResults, Absent, WorkflowError)
    /\ path' = "except"
    /\ failed' = TRUE
    /\ pc' = "done"
    /\ UNCHANGED <<calls, other_vars, runs, topic_arg, graph_state, node, announced, stream_shape, ev,
                   latest, run_vars, trace, yielded, seen>>

\* (mutant) the code after the loop clears _latest_research_result as it reads it
Reconcile_consumes ==
    /\ pc = "after"
    /\ LET r == select_result(latest, complete_state, final_answer_text,
                              last_node_state, final_state_raw, topic_arg)
       IN  /\ outcome' = r.outcome
           /\ result' = r.value
           /\ path' = r.path
    /\ latest' = NoneValue
    /\ pc' = "done"
    /\ UNCHANGED <<calls, other_vars, runs, topic_arg, graph_state, node, announced, stream_shape, ev,
                   run_vars, trace, failed, yielded, seen>>

\* the code after the loop
Reconcile ==
    /\ pc = "after"
    /\ LET r == select_result(latest, complete_state, final_answer_text,
                              last_node_state, final_state_raw, topic_arg)
       IN  /\ outcome' = r.outcome
           /\ result' = r.value
           /\ path' = r.path
    /\ pc' = "done"
    /\ UNCHANGED <<calls, other_vars, runs, topic_arg, graph_state, node, announced, stream_shape, ev,
                   latest, run_vars, trace, failed, yielded, seen>>

Start == StartWith(Topics, Depths, QueryCounts, Shapes)

Next ==
    \/ Start
    \/ EnterEvent
    \/ Research
    \/ Draft
    \/ FactCheck
    \/ Citation
    \/ Improve
    \/ Observe
    \/ StreamEnd
    \/ StreamRaises
    \/ Reconcile

Spec == Init /\ [][Next]_vars

-----------------------------------------------------------------------------
(* The code after the loop as a function of what the loop was given: the    *)
(* same run_research_workflow, driven by a stream that yields any events    *)
(* (up to MaxEvents of them), while the improve node may or may not have    *)
(* stored its result.                                                       *)

AnyAnswers == {"", "a1", "a2"}
AnyResults == {MissingResults, [present |-> TRUE, synthesis |-> "syn"]}
\* status and error of a state an event carries
AnyStatus == {<<"complete", "">>, <<"error", "e1">>, <<Absent, Absent>>}

AnyStates(topic) ==
    {[ResearchState(topic, "basic", 2) EXCEPT
          !.final_answer = a, !.research_results = r,
          !.status = se[1], !.error = se[2]] :
        a \in AnyAnswers, r \in AnyResults, se \in AnyStatus}

AnyEvents(topic) ==
    {Event(w, k[1], k[2], st) :
        w \in {"plain", "updates"},
        k \in {<<"none", RESEARCH>>, <<"exit", RESEARCH>>, <<"exit", IMPROVE>>},
        st \in AnyStates(topic)}

StartRec ==
    /\ runs = 0
    /\ StartWith({"t1"}, {"basic"}, {2}, {[wrap |-> "plain", metadata |-> FALSE]})

\* the stream yields an event
YieldAny ==
    /\ pc = "engine"
    /\ yielded < MaxEvents
    /\ ev' \in AnyEvents(topic_arg)
    /\ yielded' = yielded + 1
    /\ pc' = "loop"
    /\ UNCHANGED <<calls, other_vars, runs, topic_arg, graph_state, node, announced, stream_shape,
                   latest, run_vars, outcome, result, path, trace, failed, seen>>

\* the improve node ran inside the stream and stored its result
ImproveStores ==
    /\ pc = "engine"
    /\ latest.isNone
    /\ \E answer \in {"", "a1"}, r \in AnyResults \ {MissingResults} :
          latest' = improve_store([graph_state EXCEPT !.research_results = r], answer)
    /\ UNCHANGED <<calls, other_vars, pc, runs, topic_arg, graph_state, node, announced, stream_shape,
                   ev, run_vars, outcome, result, path, trace, failed, yielded, seen>>

\* the stream ends
StreamEndAny ==
    /\ pc = "engine"
    /\ pc' = "after"
    /\ UNCHANGED <<calls, other_vars, runs, topic_arg, graph_state, node, announced, stream_shape, ev,
                   latest, run_vars, outcome, result, path, trace, failed, yielded, seen>>

NextRec ==
    \/ StartRec
    \/ YieldAny
    \/ ImproveStores
    \/ Observe
    \/ StreamEndAny
    \/ StreamRaises
    \/ Reconcile

SpecRec == Init /\ [][NextRec]_vars

-----------------------------------------------------------------------------
(* The research agent in detail: ResearchAgent.run generates the queries,   *)
(* searches each of them and synthesises; the research node wraps it.  The  *)
(* run goes as far as the draft node.                                       *)

\* The text of the query-generation chain is a sequence of lines; a line is a
\* query, with or without a "<number>." in front of it.
QueryBody(i) == "q" \o ToString(i)
QueryTexts ==
    {[i \in 1..k |-> [numbered |-> b, body |-> QueryBody(i)]] :
        k \in 1..MaxLines, b \in BOOLEAN}

\* What the query-generation chain does: returns a text of some lines ("ok"),
\* returns an empty text, fails inside the wrapper, which returns its error
\* text ("failed"), or returns a value that is no text ("malformed").
QueryGenOutcomes ==
    {[kind |-> "ok", lines |-> t] : t \in QueryTexts}
    \cup {[kind |-> k, lines |-> <<>>] : k \in {"empty", "failed", "malformed"}}

\* "Remove potential numbering or prefixes"
clean_query(line) == line.body

generate_search_queries(research_topic, qo) ==
    CASE qo.kind = "ok" -> [i \in 1..Len(qo.lines) |-> clean_query(qo.lines[i])]
      [] qo.kind = "empty" -> <<"">>
      [] qo.kind = "failed" -> <<invoke_wrapper("search_queries", research_topic, "failed")>>
      [] OTHER -> <<research_topic>>

SearchOutcomes == {"ok", "error"}

\* TavilySearchClient.search, and the query ResearchAgent.run adds to its result
search(query, so) == [query |-> query, found |-> so = "ok"]

\* what the external calls of one ResearchAgent.run do
ResearchOutcomes(research_topic) ==
    {[isNone |-> FALSE, raises |-> TRUE, query_gen |-> [kind |-> "empty", lines |-> <<>>],
      searches |-> <<>>, synthesis |-> "ok"]}
    \cup
    UNION {{[isNone |-> FALSE, raises |-> FALSE, query_gen |-> qo, searches |-> souts,
             synthesis |-> syo] :
               souts \in [1..Len(generate_search_queries(research_topic, qo))
                             -> SearchOutcomes],
               syo \in LLMOutcomes} :
           qo \in QueryGenOutcomes}

ResearchAgentRunDetailed(research_topic, ro) ==
    LET queries == generate_search_queries(research_topic, ro.query_gen)
    IN  [present |-> TRUE,
         queries |-> queries,
         search_results |-> [i \in 1..Len(queries) |-> search(queries[i], ro.searches[i])],
         synthesis |-> invoke_wrapper("synthesis", research_topic, ro.synthesis)]

AllSearchesFail(ro) ==
    /\ Len(ro.searches) > 0
    /\ \A i \in 1..Len(ro.searches) : ro.searches[i] = "error"

\* (mutant) the research node reports an error when no search found anything
research_detailed_strict(state, ro) ==
    IF ro.raises \/ AllSearchesFail(ro)
    THEN StageError(state, "Research error", "boom")
    ELSE [state EXCEPT
             !.research_results = ResearchAgentRunDetailed(state.research_topic, ro),
             !.status = "draft"]

\* the research node, with the agent in detail
research_detailed(state, ro) ==
    IF ro.raises
    THEN StageError(state, "Research error", "boom")
    ELSE [state EXCEPT
             !.research_results = ResearchAgentRunDetailed(state.research_topic, ro),
             !.status = "draft"]

AllCallsSucceed(ro) ==
    /\ ~ro.raises
    /\ ro.query_gen.kind = "ok"
    /\ \A i \in 1..Len(ro.searches) : ro.searches[i] = "ok"
    /\ ro.synthesis = "ok"

StartResearch ==
    /\ runs = 0
    /\ StartWith(Topics, {"basic"}, QueryCounts,
                 {[wrap |-> w, metadata |-> FALSE] : w \in {"plain", "updates"}})

ResearchDetailed ==
    /\ pc = "engine" /\ node = RESEARCH
    /\ \E ro \in ResearchOutcomes(graph_state.research_topic) :
          /\ NodeStep(RESEARCH, research_detailed(graph_state, ro),
                      IF AllCallsSucceed(ro) THEN "ok" ELSE "failed", latest)
          /\ calls' = ro

NextResearch ==
    \/ StartResearch
    \/ ResearchDetailed
    \/ Observe
    \/ Draft

SpecResearch == Init /\ [][NextResearch]_vars

-----------------------------------------------------------------------------
(* One node of the graph called on any state: the five node functions as    *)
(* functions of the state they are given, upstream fields present or not.   *)

AnyStageStatus ==
    {<<"research", "">>, <<"draft", "">>, <<"fact_check", "">>, <<"citation", "">>,
     <<"improve", "">>, <<"error", "e1">>}

StageInputs ==
    {[ResearchState("t1", "basic", 2) EXCEPT
          !.research_results = r,
          !.draft_result = [initial_draft |-> d],
          !.fact_check_result = [corrected_draft |-> c],
          !.citation_result = [final_draft |-> f],
          !.status = se[1], !.error = se[2]] :
        r \in {EmptyResults, [present |-> TRUE, synthesis |-> "syn"]},
        d \in {Absent, "d0"}, c \in {Absent, "c0"}, f \in {Absent, "f0"},
        se \in AnyStageStatus}

\* the node function named n
CallNode(n, state, o) ==
    CASE n = RESEARCH -> research(state, o)
      [] n = DRAFT -> draft(state, o)
      [] n = FACT_CHECK -> fact_check(state, o)
      [] n = CITATION -> citation(state, o)
      [] OTHER -> improve(state, o)

InitStage ==
    /\ pc = "stage"
    /\ runs = 0
    /\ topic_arg = "t1"
    /\ graph_state \in StageInputs
    /\ node = END
    /\ announced = FALSE
    /\ stream_shape = NoneValue
    /\ ev = NoneValue
    /\ latest = NoneValue
    /\ final_state_raw = NoneValue
    /\ complete_state = NoneValue
    /\ last_node_state = NoNodeStates
    /\ last_node_name = Absent
    /\ final_answer_text = ""
    /\ outcome = "none"
    /\ result = NoneValue
    /\ path = "none"
    /\ trace = <<>>
    /\ failed = FALSE
    /\ yielded = 0
    /\ seen = NothingSeen
    /\ calls = NoneValue
    /\ arg = NoneValue
    /\ ret = NoneValue
    /\ thread = NoneValue

\* the graph calls node n on the state
StageCall ==
    /\ pc = "stage"
    /\ \E n \in NodeNames, o \in CallOutcomes :
          LET state2 == CallNode(n, graph_state, o)
          IN  /\ graph_state' = state2
              /\ node' = n
              /\ trace' = <<[node |-> n, status |-> state2.status]>>
              /\ failed' = (o # "ok")
              /\ latest' = IF n = IMPROVE /\ state2.status = "complete"
                           THEN improve_store(graph_state, state2.final_answer)
                           ELSE latest
    /\ pc' = "staged"
    /\ UNCHANGED <<calls, other_vars, runs, topic_arg, announced, stream_shape, ev, run_vars, outcome,
                   result, path, yielded, seen>>

NextStage == StageCall

SpecStage == InitStage /\ [][NextStage]_vars

-----------------------------------------------------------------------------
(* FactCheckingAgent.run in detail: the report chain, the correction chain  *)
(* and the three try blocks around them.                                    *)

\* What one of the agent's two calls does: the chain returns a text ("ok"),
\* an empty text, or its exception is turned into an error text by the
\* wrapper ("failed"); "interrupted": an exception is raised in the method
\* itself (its console writes), outside the wrapper.
MethodOutcomes == LLMOutcomes \cup {"interrupted"}

\* what the calls of one FactCheckingAgent.run do.  raises: the console write
\* before run's try block raises; run_interrupted: an exception inside run's
\* try block, outside the two methods.
FactCheckOutcomes ==
    {[isNone |-> FALSE, raises |-> TRUE, run_interrupted |-> FALSE,
      report |-> "ok", correction |-> "ok"]}
    \cup {[isNone |-> FALSE, raises |-> FALSE, run_interrupted |-> ri,
           report |-> r, correction |-> c] :
             ri \in BOOLEAN, r \in MethodOutcomes, c \in MethodOutcomes}

check_facts(draft_text, o) ==
    IF o = "interrupted"
    THEN "Error during fact-checking: boom"
    ELSE invoke_wrapper("fact_check_report", draft_text, o)

correct_draft(draft_text, fact_check_report, o) ==
    IF o = "interrupted"
    THEN draft_text
    ELSE invoke_wrapper("corrected", draft_text, o)

FactCheckingAgentRunDetailed(draft_text, fo) ==
    IF fo.run_interrupted
    THEN [fact_check_report |-> "Error during fact-checking: boom",
          corrected_draft |-> draft_text]
    ELSE LET fact_check_report == check_facts(draft_text, fo.report)
         IN  [fact_check_report |-> fact_check_report,
              corrected_draft |-> correct_draft(draft_text, fact_check_report,
                                                fo.correction)]

\* the fact-check node, with the agent in detail
fact_check_detailed(state, fo) ==
    IF state.research_results.synthesis = Absent
    THEN StageError(state, "Fact-checking error", "'synthesis'")
    ELSE IF state.draft_result.initial_draft = Absent
    THEN StageError(state, "Fact-checking error", "'initial_draft'")
    ELSE IF fo.raises
    THEN StageError(state, "Fact-checking error", "boom")
    ELSE [state EXCEPT
             !.fact_check_result =
                 FactCheckingAgentRunDetailed(state.draft_result.initial_draft, fo),
             !.status = "citation"]

\* the graph calls fact_check_node on the state
FactCheckDetailed ==
    /\ pc = "stage"
    /\ \E fo \in FactCheckOutcomes :
          LET state2 == fact_check_detailed(graph_state, fo)
          IN  /\ graph_state' = state2
              /\ trace' = <<[node |-> FACT_CHECK, status |-> state2.status]>>
              /\ failed' = (fo.raises \/ fo.run_interrupted
                             \/ fo.report # "ok" \/ fo.correction # "ok")
              /\ calls' = fo
    /\ node' = FACT_CHECK
    /\ pc' = "staged"
    /\ UNCHANGED <<other_vars, runs, topic_arg, announced, stream_shape, ev, latest,
                   run_vars, outcome, result, path, yielded, seen>>

NextFactCheck == FactCheckDetailed

SpecFactCheck == InitStage /\ [][NextFactCheck]_vars

-----------------------------------------------------------------------------
(* CitationAgent.validate_citations: the split of the validation chain's    *)
(* text into a report and a validated document.  A text is the sequence of  *)
(* its lines (the text is the lines joined by "\n"; "" is a blank line).    *)

MaxTextLines == 4

ReportMarker == "## Validation Report"
DocumentMarker == "## Final Document"
Heading == "## Title"
BareHashes == "##"
Rule == "---"
Lines == {ReportMarker, DocumentMarker, Heading, BareHashes, Rule, "", "t1", "t2"}

ValidationTexts == UNION {[1..n -> Lines] : n \in 1..MaxTextLines}

SetMin(S) == CHOOSE i \in S : \A j \in S : i <= j
SetMax(S) == CHOOSE i \in S : \A j \in S : j <= i

\* str.strip() of a text of whole lines: the blank lines at both ends go
Strip(text) ==
    LET inked == {i \in 1..Len(text) : text[i] # ""}
    IN  IF inked = {} THEN <<"">> ELSE SubSeq(text, SetMin(inked), SetMax(inked))

\* both markers occur in the text
HasMarkers(text) ==
    /\ \E i \in 1..Len(text) : text[i] = ReportMarker
    /\ \E i \in 1..Len(text) : text[i] = DocumentMarker

\* split("## Final Document", 1), and the report marker deleted from the
\* first part
split_at_markers(text) ==
    LET at == SetMin({i \in 1..Len(text) : text[i] = DocumentMarker})
        before == [i \in 1..(at - 1) |->
                      IF text[i] = ReportMarker THEN "" ELSE text[i]]
    IN  [validation_report |-> Strip(before),
         validated_draft |-> Strip(SubSeq(text, at + 1, Len(text)))]

\* The delimiter pattern matches at line i: the line is preceded by a line
\* break and is a rule followed by a line break, or hashes followed by white
\* space and nothing else up to a line break.  A heading with a title does
\* not match: after the hashes and the blank the pattern wants a line break.
separator_at(text, i) ==
    /\ i >= 2
    /\ \/ text[i] = Rule /\ i < Len(text)
       \/ text[i] = BareHashes /\ i + 1 < Len(text) /\ text[i + 1] = ""

separators(text) == {i \in 1..Len(text) : separator_at(text, i)}

\* the lines i at which "\n\n" occurs: a blank line between two line breaks
paragraph_breaks(text) == {i \in 2..(Len(text) - 1) : text[i] = ""}

\* the text before line i and the text after it, both stripped
split_at_line(text, i) ==
    [validation_report |-> Strip(SubSeq(text, 1, i - 1)),
     validated_draft |-> Strip(SubSeq(text, i + 1, Len(text)))]

whole_text(text) ==
    [validation_report |-> <<"No validation issues found.">>, validated_draft |-> text]

\* (mutant) the paragraph split is tried before the delimiter pattern
split_paragraph_first(text) ==
    IF HasMarkers(text) THEN split_at_markers(text)
    ELSE IF paragraph_breaks(text) # {}
    THEN split_at_line(text, SetMin(paragraph_breaks(text)))
    ELSE IF separators(text) # {}
    THEN split_at_line(text, SetMin(separators(text)))
    ELSE whole_text(text)

\* the if/else chain of validate_citations
split(text) ==
    IF HasMarkers(text) THEN split_at_markers(text)
    ELSE IF separators(text) # {}
    THEN split_at_line(text, SetMin(separators(text)))
    ELSE IF paragraph_breaks(text) # {}
    THEN split_at_line(text, SetMin(paragraph_breaks(text)))
    ELSE whole_text(text)

\* validate_citations(formatted_draft), the chain having returned the text;
\* interrupted: an exception inside its try block
validate_citations(formatted_draft, text, interrupted) ==
    IF interrupted
    THEN [validation_report |-> <<"Error validating citations: boom">>,
          validated_draft |-> formatted_draft]
    ELSE split(text)

InitSplit ==
    /\ pc = "validate"
    /\ runs = 0
    /\ topic_arg = Absent
    /\ graph_state = NoneValue
    /\ node = END
    /\ announced = FALSE
    /\ stream_shape = NoneValue
    /\ ev = NoneValue
    /\ latest = NoneValue
    /\ final_state_raw = NoneValue
    /\ complete_state = NoneValue
    /\ last_node_state = NoNodeStates
    /\ last_node_name = Absent
    /\ final_answer_text = ""
    /\ outcome = "none"
    /\ result = NoneValue
    /\ path = "none"
    /\ trace = <<>>
    /\ failed = FALSE
    /\ yielded = 0
    /\ seen = NothingSeen
    /\ calls = NoneValue
    /\ arg \in ValidationTexts
    /\ ret = NoneValue
    /\ thread = NoneValue

ValidateCitations ==
    /\ pc = "validate"
    /\ \E interrupted \in BOOLEAN :
          /\ ret' = validate_citations(<<"formatted draft">>, arg, interrupted)
          /\ calls' = [isNone |-> FALSE, interrupted |-> interrupted]
    /\ pc' = "validated"
    /\ UNCHANGED <<arg, thread, runs, topic_arg, graph_state, node, announced,
                   stream_shape, ev, latest, run_vars, outcome, result, path, trace,
                   failed, yielded, seen>>

NextSplit == ValidateCitations

SpecSplit == InitSplit /\ [][NextSplit]_vars

-----------------------------------------------------------------------------
(* BaseAgent.__init__: the choice of the model, and a chain of the agent.   *)

FALLBACK_MODELS == <<"gemini-1.5-flash", "gemini-2.0-flash", "gemini-2.5-flash">>

\* the model names an agent is constructed with: those of the configuration
\* and one that is not in the fallback list
ModelNames == {FALLBACK_MODELS[i] : i \in 1..Len(FALLBACK_MODELS)} \cup {"other-model"}

\* What happens when a model is initialized and tested: the test call returns
\* a text ("ok"), returns an empty content, raises, or the constructor raises.
LivenessOutcomes == {"ok", "empty", "test_error", "init_error"}

\* _initialize_llm: the model, or None
initialize_llm(model_name, o) ==
    IF o = "ok" THEN [isNone |-> FALSE, model |-> model_name] ELSE NoneValue

\* "for fallback_model in FALLBACK_MODELS", from the i-th on; tried: the
\* models initialized so far
RECURSIVE try_fallbacks(_, _, _, _)
try_fallbacks(model_name, live, i, tried) ==
    IF i > Len(FALLBACK_MODELS)
    THEN [isNone |-> FALSE, llm |-> NoneValue, model_name |-> model_name,
          tried |-> tried, output |-> Absent]
    ELSE LET fallback_model == FALLBACK_MODELS[i]
             llm == initialize_llm(fallback_model, live[fallback_model])
         IN  IF fallback_model = model_name
             THEN try_fallbacks(model_name, live, i + 1, tried)
             ELSE IF ~llm.isNone
             THEN [isNone |-> FALSE, llm |-> llm, model_name |-> fallback_model,
                   tried |-> Append(tried, fallback_model), output |-> Absent]
             ELSE try_fallbacks(model_name, live, i + 1,
                                Append(tried, fallback_model))

\* (mutant) the fallback models are tried before the model the agent was given
BaseAgentInit_fallbacks_first(model_name, live) ==
    LET agent == try_fallbacks(model_name, live, 1, <<>>)
        llm == initialize_llm(model_name, live[model_name])
    IN  IF ~agent.llm.isNone THEN agent
        ELSE [agent EXCEPT !.llm = llm, !.tried = Append(agent.tried, model_name)]

\* BaseAgent.__init__(model_name); live: what initializing each model does
BaseAgentInit(model_name, live) ==
    LET llm == initialize_llm(model_name, live[model_name])
    IN  IF ~llm.isNone
        THEN [isNone |-> FALSE, llm |-> llm, model_name |-> model_name,
              tried |-> <<model_name>>, output |-> Absent]
        ELSE try_fallbacks(model_name, live, 1, <<model_name>>)

NoLLM == "ERROR: No LLM available."

\* a call of a chain made by create_chain: fallback_chain when the agent has
\* no model, invoke_wrapper otherwise
chain_call(agent, o) ==
    IF agent.llm.isNone THEN NoLLM ELSE invoke_wrapper("output", "prompt", o)

InitAgent ==
    /\ pc = "construct"
    /\ runs = 0
    /\ topic_arg = Absent
    /\ graph_state = NoneValue
    /\ node = END
    /\ announced = FALSE
    /\ stream_shape = NoneValue
    /\ ev = NoneValue
    /\ latest = NoneValue
    /\ final_state_raw = NoneValue
    /\ complete_state = NoneValue
    /\ last_node_state = NoNodeStates
    /\ last_node_name = Absent
    /\ final_answer_text = ""
    /\ outcome = "none"
    /\ result = NoneValue
    /\ path = "none"
    /\ trace = <<>>
    /\ failed = FALSE
    /\ yielded = 0
    /\ seen = NothingSeen
    /\ calls = NoneValue
    /\ arg \in [model_name : ModelNames]
    /\ ret = NoneValue
    /\ thread = NoneValue

ConstructAgent ==
    /\ pc = "construct"
    /\ \E live \in [ModelNames -> LivenessOutcomes] :
          /\ ret' = BaseAgentInit(arg.model_name, live)
          /\ calls' = [isNone |-> FALSE, live |-> live]
    /\ pc' = "constructed"
    /\ UNCHANGED <<arg, thread, runs, topic_arg, graph_state, node, announced,
                   stream_shape, ev, latest, run_vars, outcome, result, path, trace,
                   failed, yielded, seen>>

ChainCall ==
    /\ pc = "constructed"
    /\ \E o \in LLMOutcomes : ret' = [ret EXCEPT !.output = chain_call(ret, o)]
    /\ pc' = "called"
    /\ UNCHANGED <<calls, arg, thread, runs, topic_arg, graph_state, node, announced,
                   stream_shape, ev, latest, run_vars, outcome, result, path, trace,
                   failed, yielded, seen>>

NextAgent ==
    \/ ConstructAgent
    \/ ChainCall

SpecAgent == InitAgent /\ [][NextAgent]_vars

-----------------------------------------------------------------------------
(* run_research_workflow called in two threads of one process.  Each thread *)
(* has its own locals; _latest_research_result is the module's global.  A   *)
(* step of a thread is the code between two accesses of the global: the     *)
(* reset, a node with the loop body that handles its event, the code after  *)
(* the loop.                                                                *)

RunIds == {1, 2}

\* the threads research different topics
ThreadTopic(r) == IF r = 1 THEN "t1" ELSE "t2"

ThreadOutcomes == {"ok", "raise"}
ThreadShapes == {[wrap |-> w, metadata |-> FALSE] : w \in {"plain", "updates"}}

\* the locals of a call that has not begun
IdleThread(r) ==
    [pc |-> "idle", topic |-> ThreadTopic(r), shape |-> NoneValue,
     state |-> NoneValue, node |-> END,
     raw |-> NoneValue, complete |-> NoneValue, nodes |-> NoNodeStates, text |-> "",
     outcome |-> "none", result |-> NoneValue, path |-> "none"]

\* what every step of a thread leaves alone
single_run_vars ==
    <<pc, runs, topic_arg, graph_state, node, announced, stream_shape, ev, run_vars,
      outcome, result, path, trace, failed, yielded, seen, calls, arg, ret>>

InitThreads ==
    /\ pc = "threads"
    /\ runs = 0
    /\ topic_arg = Absent
    /\ graph_state = NoneValue
    /\ node = END
    /\ announced = FALSE
    /\ stream_shape = NoneValue
    /\ ev = NoneValue
    /\ latest = NoneValue
    /\ final_state_raw = NoneValue
    /\ complete_state = NoneValue
    /\ last_node_state = NoNodeStates
    /\ last_node_name = Absent
    /\ final_answer_text = ""
    /\ outcome = "none"
    /\ result = NoneValue
    /\ path = "none"
    /\ trace = <<>>
    /\ failed = FALSE
    /\ yielded = 0
    /\ seen = NothingSeen
    /\ calls = NoneValue
    /\ arg = NoneValue
    /\ ret = NoneValue
    /\ thread = [r \in RunIds |-> IdleThread(r)]

\* the call of thread r, up to the first next() on the stream
ThreadStart(r) ==
    /\ thread[r].pc = "idle"
    /\ latest' = NoneValue
    /\ \E shape \in ThreadShapes :
          thread' = [thread EXCEPT ![r] =
              [@ EXCEPT !.pc = "engine", !.shape = shape,
                        !.state = ResearchState(thread[r].topic, "basic", 2),
                        !.node = RESEARCH]]
    /\ UNCHANGED single_run_vars

\* the stream of thread r runs its next node and the loop body handles the event
ThreadNode(r) ==
    /\ thread[r].pc = "engine"
    /\ thread[r].node # END
    /\ \E o \in ThreadOutcomes :
          LET t == thread[r]
              state2 == CallNode(t.node, t.state, o)
              e == Event(t.shape.wrap, "none", t.node, state2)
              cur == extract_values_from_state(e)
          IN  /\ thread' = [thread EXCEPT ![r] =
                    [t EXCEPT !.state = state2,
                              !.node = NextNode(t.node, state2),
                              !.raw = e,
                              !.text = next_answer_text(cur, t.text),
                              !.nodes = next_node_states(e, cur, t.nodes),
                              !.complete = next_complete_state(e, cur, t.complete),
                              !.pc = IF loop_breaks(cur) THEN "after" ELSE "engine"]]
              /\ latest' = IF t.node = IMPROVE /\ state2.status = "complete"
                           THEN improve_store(t.state, state2.final_answer)
                           ELSE latest
    /\ UNCHANGED single_run_vars

\* an exception inside the try block of thread r
ThreadRaises(r) ==
    /\ thread[r].pc = "engine"
    /\ thread' = [thread EXCEPT ![r] =
          [@ EXCEPT !.pc = "done", !.outcome = "returned", !.path = "except",
                    !.result = Result(thread[r].topic, "error", MissingResults, Absent,
                                      WorkflowError)]]
    /\ UNCHANGED <<latest, single_run_vars>>

\* (mutant) thread r takes the stored result only when it has r's topic
ThreadReconcile_own_only(r) ==
    /\ \/ thread[r].pc = "after"
       \/ thread[r].pc = "engine" /\ thread[r].node = END
    /\ LET t == thread[r]
           mine == IF ~latest.isNone /\ latest.research_topic = t.topic
                   THEN latest ELSE NoneValue
           res == select_result(mine, t.complete, t.text, t.nodes, t.raw, t.topic)
       IN  thread' = [thread EXCEPT ![r] =
               [t EXCEPT !.pc = "done", !.outcome = res.outcome,
                         !.result = res.value, !.path = res.path]]
    /\ UNCHANGED <<latest, single_run_vars>>

\* the stream of thread r is exhausted, or its loop was left: the code after
\* the loop
ThreadReconcile(r) ==
    /\ \/ thread[r].pc = "after"
       \/ thread[r].pc = "engine" /\ thread[r].node = END
    /\ LET t == thread[r]
           res == select_result(latest, t.complete, t.text, t.nodes, t.raw, t.topic)
       IN  thread' = [thread EXCEPT ![r] =
               [t EXCEPT !.pc = "done", !.outcome = res.outcome,
                         !.result = res.value, !.path = res.path]]
    /\ UNCHANGED <<latest, single_run_vars>>

NextThreads ==
    \E r \in RunIds :
        \/ ThreadStart(r)
        \/ ThreadNode(r)
        \/ ThreadRaises(r)
        \/ ThreadReconcile(r)

SpecThreads == InitThreads /\ [][NextThreads]_vars

-----------------------------------------------------------------------------
(* Properties.                                                              *)

Reconciled == pc = "done" /\ path # "except"
ReturnedComplete == pc = "done" /\ outcome = "returned" /\ result.status = "complete"

StageOrder == <<RESEARCH, DRAFT, FACT_CHECK, CITATION, IMPROVE>>

\* C1: the stages run in the fixed order Research, Draft, FactCheck, Citation,
\* Improve, and a stage that returned status error, or Improve, is the last
\* stage the run executes.
C1_ErrorEndsRun ==
    \A i \in 1..Len(trace) :
        /\ trace[i].node = StageOrder[i]
        /\ (trace[i].status = "error" \/ trace[i].node = IMPROVE) => i = Len(trace)

C3_RunAlwaysReturns ==
    pc = "done" => (outcome = "returned" /\ result.status \in {"complete", "error"})

\* C4: a returned result with status complete has a non-empty final answer.
C4_CompleteHasAnswer ==
    ReturnedComplete => NonEmpty(result.final_answer)

\* C5: when the code after the loop runs and _latest_research_result was set
\* during the run, the returned result is that value, whatever answers the
\* observed events carried.
C5_SideChannelFirst ==
    (Reconciled /\ ~latest.isNone) => (outcome = "returned" /\ result = latest)

C5_Witness ==
    /\ Reconciled /\ path = "side_channel"
    /\ NonEmpty(seen.improveExitAnswer)
    /\ seen.improveExitAnswer # result.final_answer
    /\ seen.visibleAnswer # result.final_answer

C8_LastAnswerWins ==
    (Reconciled /\ latest.isNone
       /\ seen.completeAnswer = ""
       /\ ~NonEmpty(seen.improveExitAnswer)
       /\ seen.visibleAnswer # "")
    => /\ outcome = "returned"
       /\ result.status = "complete"
       /\ result.final_answer = seen.visibleAnswer

\* C9: side channel empty and no observed state has a non-empty answer: the
\* run returns status error with an error message, and when no state reported
\* an error the message is the no-final-answer message.
C9_NoAnswerIsError ==
    (Reconciled /\ latest.isNone /\ seen.anyAnswer = "")
    => /\ outcome = "returned"
       /\ result.status = "error"
       /\ NonEmpty(result.error)
       /\ ~seen.errorSeen => result.error = NoFinalAnswer

SuccessPaths ==
    {"side_channel", "complete_state", "answer_text", "improve_state", "final_state"}

\* C10: on every success path the call returns a record with the run's topic,
\* status complete, a final answer and research results, and the research
\* results are those of the research stage whenever an observed state carries
\* them.
C10_SuccessRecord ==
    (pc = "done" /\ path \in SuccessPaths)
    => /\ outcome = "returned"
       /\ result.research_topic = topic_arg
       /\ result.status = "complete"
       /\ result.final_answer # Absent
       /\ result.research_results.present
       /\ seen.results.present => result.research_results = seen.results

C12_EngineFailureIsError ==
    (pc = "done" /\ path = "except") =>
        /\ outcome = "returned"
        /\ result.status = "error"
        /\ result.error = WorkflowError
        /\ result.final_answer = Absent

C12_Witness ==
    /\ pc = "done" /\ path = "except"
    /\ ~latest.isNone
    /\ latest.status = "complete"

StatusRank(status) ==
    CASE status = "research" -> 1
      [] status = "draft" -> 2
      [] status = "fact_check" -> 3
      [] status = "citation" -> 4
      [] status = "improve" -> 5
      [] status = "complete" -> 6
      [] OTHER -> 0

\* C13: the statuses of the states the stages return advance strictly in the
\* order research < draft < fact_check < citation < improve < complete, and a
\* status error is the last status the run produces.
C13_StatusAdvances ==
    \A i \in 1..Len(trace) :
        /\ trace[i].status = "error" => i = Len(trace)
        /\ (i > 1 /\ trace[i].status # "error")
              => StatusRank(trace[i - 1].status) < StatusRank(trace[i].status)

\* C15: the error text is non-empty exactly when the status is error, in the
\* state each stage returns and in the result the call returns.
C15_ErrorIffStatus ==
    /\ Len(trace) > 0 => (graph_state.status = "error" <=> NonEmpty(graph_state.error))
    /\ (pc = "done" /\ outcome = "returned")
          => (result.status = "error" <=> NonEmpty(result.error))

\* the status a node sets when it succeeds
StatusAfter(n) ==
    CASE n = RESEARCH -> "draft"
      [] n = DRAFT -> "fact_check"
      [] n = FACT_CHECK -> "citation"
      [] n = CITATION -> "improve"
      [] OTHER -> "complete"

\* an upstream field node n reads is missing from the state
MissingUpstream(n, state) ==
    LET syn == state.research_results.synthesis = Absent
        d == state.draft_result.initial_draft = Absent
        c == state.fact_check_result.corrected_draft = Absent
        f == state.citation_result.final_draft = Absent
    IN  CASE n = RESEARCH -> FALSE
          [] n = DRAFT -> syn
          [] n = FACT_CHECK -> syn \/ d
          [] n = CITATION -> syn \/ (c /\ d)
          [] OTHER -> f /\ c /\ d

\* C14: each of the five nodes, called on any state and with any behaviour of
\* its agent, returns a state: with the status of the next stage, or with
\* status error and a non-empty error text; a missing upstream field gives
\* status error.
C14_StageReturnsState ==
    pc = "staged" =>
        /\ graph_state.status \in {StatusAfter(node), "error"}
        /\ graph_state.status = "error" => NonEmpty(graph_state.error)
        /\ MissingUpstream(node, graph_state) => graph_state.status = "error"

C14_Witness ==
    /\ pc = "staged"
    /\ node = FACT_CHECK
    /\ graph_state.research_results.synthesis # Absent
    /\ graph_state.draft_result.initial_draft = Absent
    /\ graph_state.status = "error"
    /\ graph_state.error = "Fact-checking error: 'initial_draft'"

\* the best available draft: citation's, else fact-check's, else the initial one
BestDraft(state) ==
    CASE state.citation_result.final_draft # Absent -> state.citation_result.final_draft
      [] state.fact_check_result.corrected_draft # Absent
            -> state.fact_check_result.corrected_draft
      [] OTHER -> state.draft_result.initial_draft

\* C20: the improve node hands the improvement call citation's final draft if
\* there is one, else fact-check's corrected draft, else the initial draft, and
\* when the call succeeds it sets final_answer to the improved text and the
\* status to complete.
C20_ImproveUsesBestDraft ==
    (pc = "staged" /\ node = IMPROVE /\ ~failed /\ BestDraft(graph_state) # Absent)
    => /\ graph_state.status = "complete"
       /\ graph_state.final_answer = Gen("improved", BestDraft(graph_state))

C20_Witness ==
    /\ pc = "staged" /\ node = IMPROVE /\ ~failed
    /\ graph_state.citation_result.final_draft = Absent
    /\ graph_state.fact_check_result.corrected_draft = "c0"
    /\ graph_state.draft_result.initial_draft = "d0"
    /\ graph_state.final_answer = "improved(c0)"
    /\ graph_state.status = "complete"

\* the research node has run with its agent's calls recorded
ResearchRan == Len(trace) >= 1 /\ ~calls.isNone /\ ~calls.raises

\* C16: when the query-generation call fails, the research stage performs
\* exactly one search and its query is the topic.
C16_DegradedQueryIsTopic ==
    (ResearchRan /\ calls.query_gen.kind \in {"failed", "malformed"})
    => /\ Len(graph_state.research_results.search_results) = 1
       /\ graph_state.research_results.search_results[1].query = topic_arg

\* C17: when every search of the research stage returns an error, the research
\* node still returns status draft and the draft node is the next to run.
C17_SearchErrorsStillDraft ==
    (ResearchRan /\ AllSearchesFail(calls))
    => /\ trace[1].status = "draft"
       /\ Len(trace) = 1 => node = DRAFT
       /\ Len(trace) > 1 => trace[2].node = DRAFT

C17_Witness ==
    /\ ResearchRan /\ AllSearchesFail(calls)
    /\ Len(calls.searches) >= 2
    /\ Len(trace) = 2
    /\ trace[2].node = DRAFT
    /\ trace[2].status = "fact_check"

\* C18: when the synthesis call fails, the research node returns status error
\* with a research-error text and no later node runs.
C18_SynthesisFailureIsError ==
    (ResearchRan /\ calls.synthesis = "failed")
    => /\ trace[1].status = "error"
       /\ Len(trace) = 1
       /\ Len(trace) = 1 => graph_state.error = "Research error: boom"

\* C19: when every external call succeeds, the research results list as many
\* queries as num_queries asks for, whatever lines the query-generation text has.
C19_QueryCountIsConfigured ==
    (ResearchRan /\ AllCallsSucceed(calls))
    => Len(graph_state.research_results.queries) = graph_state.num_queries

\* C21: the citation node hands its agent fact-check's corrected draft
\* whenever fact_check_result has one, and the initial draft only otherwise.
C21_CitationUsesCorrectedDraft ==
    (pc = "staged" /\ node = CITATION /\ ~failed
       /\ graph_state.research_results.synthesis # Absent)
    => LET corrected == graph_state.fact_check_result.corrected_draft
           initial == graph_state.draft_result.initial_draft
       IN  /\ corrected # Absent
                => graph_state.citation_result.final_draft = Gen("cited", corrected)
           /\ (corrected = Absent /\ initial # Absent)
                => graph_state.citation_result.final_draft = Gen("cited", initial)

C21_Witness ==
    /\ pc = "staged" /\ node = CITATION /\ ~failed
    /\ graph_state.fact_check_result.corrected_draft = "c0"
    /\ graph_state.draft_result.initial_draft = "d0"
    /\ graph_state.citation_result.final_draft = "cited(c0)"
    /\ graph_state.status = "improve"

\* the output field node n owns
OwnField(n) ==
    CASE n = RESEARCH -> "research_results"
      [] n = DRAFT -> "draft_result"
      [] n = FACT_CHECK -> "fact_check_result"
      [] n = CITATION -> "citation_result"
      [] OTHER -> "final_answer"

OutputFields ==
    {"research_results", "draft_result", "fact_check_result", "citation_result",
     "final_answer"}

\* what node n may change between the state it is given and the one it returns
Frame(n, before, after) ==
    /\ after.research_topic = before.research_topic
    /\ after.research_depth = before.research_depth
    /\ after.num_queries = before.num_queries
    /\ IF after.status = "error"
       THEN \A f \in OutputFields : after[f] = before[f]
       ELSE /\ \A f \in OutputFields \ {OwnField(n)} : after[f] = before[f]
            /\ after.error = before.error

\* C27: a node that succeeds changes only its own output field and the status,
\* a node that fails only the status and the error text; topic, depth, query
\* count and every other output field of the returned state equal the input's.
C27_StageFrame ==
    [][(pc = "stage" /\ pc' = "staged") => Frame(node', graph_state, graph_state')]_vars

C27_Witness ==
    /\ pc = "staged" /\ node = DRAFT
    /\ graph_state.status = "fact_check"
    /\ graph_state.draft_result.initial_draft = "draft(syn)"
    /\ graph_state.fact_check_result.corrected_draft = "c0"
    /\ graph_state.citation_result.final_draft = "f0"
    /\ graph_state.final_answer = ""

\* whether output field f of a state holds a stage's output
Populated(state, f) ==
    CASE f = "research_results" -> state.research_results.synthesis # Absent
      [] f = "draft_result" -> state.draft_result.initial_draft # Absent
      [] f = "fact_check_result" -> state.fact_check_result.corrected_draft # Absent
      [] f = "citation_result" -> state.citation_result.final_draft # Absent
      [] OTHER -> state.final_answer # ""

\* C28: within a run an output field changes only in a step of the node that
\* owns it, and a field that holds an output keeps its value in every later
\* state of the run.
C28_WriteOnce ==
    [][runs' = runs =>
         \A n \in NodeNames :
             LET f == OwnField(n)
             IN  /\ Populated(graph_state, f) => graph_state'[f] = graph_state[f]
                 /\ graph_state'[f] # graph_state[f]
                      => /\ pc = "engine" /\ node = n
                         /\ trace' = Append(trace, [node |-> n, status |-> graph_state'.status])]_vars

C28_Witness ==
    /\ pc = "done" /\ Len(trace) = 5
    /\ \A f \in OutputFields \ {"fact_check_result"} : Populated(graph_state, f)
    /\ trace[3].status = "error"
    /\ graph_state.citation_result.final_draft
          = Gen("cited", graph_state.draft_result.initial_draft)

\* the text a failing node puts before the cause
ErrorPrefix(n) ==
    CASE n = RESEARCH -> "Research error"
      [] n = DRAFT -> "Drafting error"
      [] n = FACT_CHECK -> "Fact-checking error"
      [] n = CITATION -> "Citation error"
      [] OTHER -> "Improvement error"

\* C29: when a node returned status error (and the stream itself did not
\* raise), that node is the last one the run executed and the call returns
\* status error with that node's message: its prefix, then the cause.
C29_StageErrorReachesCaller ==
    (pc = "done" /\ path # "except" /\ \E i \in 1..Len(trace) : trace[i].status = "error")
    => LET first == CHOOSE i \in 1..Len(trace) :
                        /\ trace[i].status = "error"
                        /\ \A j \in 1..(i - 1) : trace[j].status # "error"
       IN  /\ Len(trace) = first
           /\ outcome = "returned"
           /\ result.status = "error"
           /\ \E cause \in {"boom", "'synthesis'", "'initial_draft'"} :
                 result.error = ErrorPrefix(trace[first].node) \o ": " \o cause

\* C25: _latest_research_result is None when a run begins and until its
\* improve node succeeded; the improve node runs at most once in a run; what
\* is stored is this run's topic and answer, so a run that returns the stored
\* value returns its own.
C25_SideChannelIsThisRuns ==
    /\ (runs > 0 /\ trace = <<>>) => latest.isNone
    /\ runs > 0 => Cardinality({i \in 1..Len(trace) : trace[i].node = IMPROVE}) <= 1
    /\ ~latest.isNone
         => /\ trace # <<>>
            /\ trace[Len(trace)] = [node |-> IMPROVE, status |-> "complete"]
            /\ latest.research_topic = topic_arg
            /\ latest.final_answer = graph_state.final_answer
    /\ (pc = "done" /\ path = "side_channel")
         => /\ result = latest
            /\ result.research_topic = topic_arg

C25_Witness ==
    /\ runs = 2 /\ pc = "done" /\ path = "side_channel"
    /\ result.research_topic = topic_arg
    /\ result.final_answer = graph_state.final_answer

\* one of the fact-checking agent's calls failed: a chain call raised, or an
\* exception was raised inside the agent's try blocks
InternalCallFailed(fo) ==
    /\ ~fo.raises
    /\ \/ fo.run_interrupted
       \/ fo.report \in {"failed", "interrupted"}
       \/ fo.correction \in {"failed", "interrupted"}

\* C24: when the report call or the correction call of the fact-check stage
\* fails, the stage returns status citation and a corrected draft equal to the
\* draft it was given.
C24_FailedFactCheckKeepsDraft ==
    (pc = "staged" /\ node = FACT_CHECK /\ ~calls.isNone
       /\ graph_state.research_results.synthesis # Absent
       /\ graph_state.draft_result.initial_draft # Absent
       /\ InternalCallFailed(calls))
    => /\ graph_state.status = "citation"
       /\ graph_state.fact_check_result.corrected_draft
             = graph_state.draft_result.initial_draft

Split == pc = "validated" /\ ~calls.interrupted

\* C22: the split is made at the markers when both are in the text; else at
\* the first line the delimiter pattern matches; else at the first paragraph
\* break; else the whole text is the document and the report is the fixed
\* sentence.  A later rule is used only when no earlier one applies.
C22_SplitIsOrderedChain ==
    Split =>
        /\ HasMarkers(arg) => ret = split_at_markers(arg)
        /\ (~HasMarkers(arg) /\ separators(arg) # {})
             => ret = split_at_line(arg, SetMin(separators(arg)))
        /\ (~HasMarkers(arg) /\ separators(arg) = {} /\ paragraph_breaks(arg) # {})
             => ret = split_at_line(arg, SetMin(paragraph_breaks(arg)))
        /\ (~HasMarkers(arg) /\ separators(arg) = {} /\ paragraph_breaks(arg) = {})
             => /\ ret.validated_draft = arg
                /\ ret.validation_report = <<"No validation issues found.">>

C22_Witness ==
    /\ Split
    /\ arg = <<"t1", "", "---", "t2">>
    /\ ret.validation_report = <<"t1">>
    /\ ret.validated_draft = <<"t2">>

\* C23: a text without markers whose only line that is neither prose nor
\* blank is a heading with a title, in mid-text, is split at that heading:
\* the report is the text before it, the document the text after it.
C23_HeadingSplitsText ==
    \A i \in 2..(Len(arg) - 1) :
        (Split /\ arg[i] = Heading
           /\ \A j \in (1..Len(arg)) \ {i} : arg[j] \in {"", "t1", "t2"})
        => ret = split_at_line(arg, i)

\* the fallback models other than the one the agent was given, in order
OtherFallbacks(model_name) ==
    SelectSeq(FALLBACK_MODELS, LAMBDA m : m # model_name)

\* C30: a primary model that passes its test is the agent's model and nothing
\* else is tried; when it fails, the fallback models other than it are tried
\* in the order of the list up to the first that passes, which becomes the
\* agent's model; when none passes the agent has no model and a call of its
\* chain returns the error text.
C30_ModelFallback ==
    pc \in {"constructed", "called"} =>
        LET primary == arg.model_name
            others == OtherFallbacks(primary)
            passing == {i \in 1..Len(others) : calls.live[others[i]] = "ok"}
        IN  /\ calls.live[primary] = "ok"
                 => /\ ret.llm = [isNone |-> FALSE, model |-> primary]
                    /\ ret.model_name = primary
                    /\ ret.tried = <<primary>>
            /\ (calls.live[primary] # "ok" /\ passing # {})
                 => LET first == SetMin(passing)
                    IN  /\ ret.llm = [isNone |-> FALSE, model |-> others[first]]
                        /\ ret.model_name = others[first]
                        /\ ret.tried = <<primary>> \o SubSeq(others, 1, first)
            /\ (calls.live[primary] # "ok" /\ passing = {})
                 => /\ ret.llm.isNone
                    /\ ret.tried = <<primary>> \o others
                    /\ pc = "called" => ret.output = NoLLM

C30_Witness ==
    /\ pc = "called"
    /\ arg.model_name = "gemini-2.0-flash"
    /\ calls.live["gemini-2.0-flash"] = "test_error"
    /\ calls.live["gemini-1.5-flash"] = "empty"
    /\ ret.tried = <<"gemini-2.0-flash", "gemini-1.5-flash", "gemini-2.5-flash">>
    /\ ret.model_name = "gemini-2.5-flash"
    /\ ret.output = "output(prompt)"

\* C26: the stored result belongs to the process, not to a run.  The start
\* of a call empties it whatever another call has stored, and the code after
\* the loop returns what it finds there, whichever call stored it; so a call
\* can return the other call's topic and answer.
C26_SideChannelIsShared ==
    [][\A r \in RunIds :
          /\ (thread[r].pc = "idle" /\ thread'[r].pc # "idle") => latest'.isNone
          /\ (thread[r].pc # "done" /\ thread'[r].pc = "done"
                /\ thread'[r].path # "except" /\ ~latest.isNone)
               => /\ thread'[r].path = "side_channel"
                  /\ thread'[r].result = latest]_vars

C26_Witness ==
    /\ thread[1].pc = "done" /\ thread[1].path = "side_channel"
    /\ thread[1].state.status = "complete"
    /\ thread[1].result.research_topic = "t2"
    /\ thread[1].result.final_answer = thread[2].state.final_answer
    /\ thread[1].result.final_answer # thread[1].state.final_answer

====
